---- MODULE Spec2Model ----
(***************************************************************************)
(* service-mocker server side: the fetch-event dispatcher                  *)
(* (src/unnamed/part_001) and the response builder MockerResponse          *)
(* (src/src/lib/server/response.ts).                                       *)
(*                                                                         *)
(* Time is counted in seconds: the per-response timer of 10 * 1e3 ms is 10 *)
(* units, the dispatcher's fallback timer of 2000 ms is 2 units.  The      *)
(* clock moves from deadline to deadline; a timer fires at the reading it  *)
(* falls due at; handler calls and network replies may happen at any time. *)
(*                                                                         *)
(* MockerRouter and Defer are not part of the sources at hand; they are    *)
(* modelled from their description (MatchResults, DeferResolve).           *)
(***************************************************************************)
EXTENDS Integers, Sequences, FiniteSets, TLC

(* ---- bounds of the model ---- *)
MaxRouters == 2     \* routers registered at most
MaxCalls == 2       \* builder calls a handler makes per request at most
MaxMessages == 3    \* message events delivered at most

(* ---- program constants ---- *)
FALLBACK_DELAY == 2
RESPONSE_TIMEOUT_Short == FALLBACK_DELAY - 1
RESPONSE_TIMEOUT == 10
DEFAULT_STATUS == 200
NULL_BODY_STATUS_Short == {101, 204, 205}
NULL_BODY_STATUS == {101, 204, 205, 304}

Requests == {1, 2}
Methods == {"GET", "HEAD", "POST"}
Envs == {"worker", "legacy"}
MatchResults == {"false", "true", "throw"}
Codes == {101, 204, 205, 304, 404}
SendStatusCodes == {204, 404}
MimeTokens == {"text", "html", "json", "bin"}
TypeArgs == {"text/css"}
SendArgs == {"undefined", "function", "string", "object", "blob", "arraybuffer"}
JsonArgs == {"undefined", "object"}
ForwardArgs == {"request", "url"}
Ports == {1, 2}
PortLists == {<<>>, <<1>>, <<2>>, <<2, 1>>}
MessageData == {"null", "PING", "PONG", "REQUEST_CLAIM", "ESTABLISHED", "OTHER"}
ClaimOutcomes == {"ok", "failed"}

VARIABLES
    env,            \* what `self` is: a service worker, or a window (legacy mode) whose
                    \* fetch or XMLHttpRequest is the patched one
    routers,        \* MockerRouter.routers, the global registry (router ids in registration order)
    now,            \* the clock
    inflight,       \* the requests the page issues in this behaviour
    phase,          \* per request: "idle" before the fetch event, "open" after
    method,         \* event.request.method
    at,             \* time of interception
    seen,           \* length of the registry when the dispatcher ran
    attempts,       \* the routers whose _match was called, in call order
    results,        \* what each of those calls returned ("throw": it raised)
    handler,        \* the router whose handler was invoked, 0 if none
    aborted,        \* "none", or what made the fetch listener throw
    respondWithCalls, \* calls of event.respondWith
    resolved,       \* the listener's `resolved` flag
    globalTimer,    \* the 2000 ms timer: "none", "armed", "fired"
    respTimer,      \* the 10 s timer: "none", "armed", "fired", "cleared"
    warned,         \* responseLog.error calls of the 10 s timer
    statusCode,     \* MockerResponse._statusCode
    contentType,    \* the content-type entry of MockerResponse.headers, "" if unset
    body,           \* MockerResponse._body
    deferred,       \* MockerResponse._deferred
    net,            \* network requests issued for the request, in order
    awaiting,       \* forward() calls suspended reading the request body
    calls,          \* builder calls made by the handler so far
    lastCall,       \* the last of them, with its argument (history)
    delivered,      \* message events delivered to the message listener
    posted,         \* per port: the messages the listener posted on it, in order
    claims          \* the self.clients.claim() operations started, with the port of the
                    \* message each was started for: "pending", "ok" or "failed"

registry == <<env, routers>>
dispatch == <<phase, method, at, seen, attempts, results, handler, aborted, respondWithCalls, globalTimer>>
builder == <<statusCode, contentType, body>>
settle == <<deferred, resolved, respTimer, net>>
messaging == <<delivered, posted, claims>>
fetching == <<env, routers, now, inflight, phase, method, at, seen, attempts, results, handler, aborted,
              respondWithCalls, resolved, globalTimer, respTimer, warned, statusCode,
              contentType, body, deferred, net, awaiting, calls, lastCall>>
vars == <<env, routers, now, inflight, phase, method, at, seen, attempts, results, handler,
          aborted,
          respondWithCalls, resolved, globalTimer, respTimer, warned, statusCode,
          contentType, body, deferred, net, awaiting, calls, lastCall,
          delivered, posted, claims>>

(* ---- values ---- *)
Undefined == [enc |-> "none", of |-> ""]
NoValue == [kind |-> "none"]

(* http-status-codes getStatusText *)
StatusText(code) ==
    CASE code = 101 -> "Switching Protocols"
      [] code = 200 -> "OK"
      [] code = 204 -> "No Content"
      [] code = 205 -> "Reset Content"
      [] code = 304 -> "Not Modified"
      [] code = 404 -> "Not Found"
      [] OTHER -> ToString(code)

(* mime-component lookup *)
MimeLookup(token) ==
    CASE token = "text" -> "text/plain"
      [] token = "html" -> "text/html"
      [] token = "json" -> "application/json"
      [] token = "bin" -> "application/octet-stream"
      [] OTHER -> token

(* type(): the header value type(t) stores *)
TypeHeader(t) == IF t \in MimeTokens THEN MimeLookup(t) ELSE t

(* type(t) unless a content-type header is there *)
TypeIfUnset(ct, t) == IF ct = "" THEN TypeHeader(t) ELSE ct

(* JSON.stringify: undefined and functions have no JSON text *)
JSONStringify(v) ==
    IF v \in {"undefined", "function"} THEN Undefined ELSE [enc |-> "json", of |-> v]

TypeOf(v) ==
    CASE v = "undefined" -> "undefined"
      [] v = "function" -> "function"
      [] v = "string" -> "string"
      [] OTHER -> "object"

(* faulty variant of DeferResolve: the last resolve() wins *)
DeferResolve_LastWins(d, v) == [done |-> TRUE, value |-> v]

(* ---- Defer (utils): single assignment, `done` set by resolve() ---- *)
DeferResolve(d, v) ==
    IF d.value = NoValue THEN [done |-> TRUE, value |-> v] ELSE [d EXCEPT !.done = TRUE]

(* the promise of a deferred is settled / fulfilled *)
IsSettled(d, n) ==
    \/ d.value.kind = "built"
    \/ d.value.kind = "net" /\ n[d.value.id].state # "pending"

IsFulfilled(d, n) ==
    \/ d.value.kind = "built"
    \/ d.value.kind = "net" /\ n[d.value.id].state = "ok"

(* faulty variant of Settle: `resolved` declared outside the listener, one flag *)
(* for all requests                                                            *)
Settle_SharedFlag(r, d, n) ==
    /\ deferred' = [deferred EXCEPT ![r] = d]
    /\ net' = [net EXCEPT ![r] = n]
    /\ resolved' = [q \in Requests |-> resolved[q] \/ IsFulfilled(d, n)]
    /\ respTimer' = [respTimer EXCEPT ![r] =
                        IF @ = "armed" /\ IsSettled(d, n) THEN "cleared" ELSE @]

(* the .then callbacks on the deferred promise: `resolved = true` of the       *)
(* listener, and clear() of the constructor                                    *)
Settle(r, d, n) ==
    /\ deferred' = [deferred EXCEPT ![r] = d]
    /\ net' = [net EXCEPT ![r] = n]
    /\ resolved' = [resolved EXCEPT ![r] = @ \/ IsFulfilled(d, n)]
    /\ respTimer' = [respTimer EXCEPT ![r] =
                        IF @ = "armed" /\ IsSettled(d, n) THEN "cleared" ELSE @]

(* ---- network primitives ---- *)
(* nativeFetch: fetch.native, the polyfill over the native XHR, or the worker's fetch *)
NativeFetch(e) ==
    CASE e = "legacy" -> "native"
      [] OTHER -> "native"

(* the global `fetch` the listener calls *)
GlobalFetch(e) == IF e = "worker" THEN "native" ELSE "patched"

NetRequest(by, via, input, cors) ==
    [by |-> by, via |-> via, input |-> input, cors |-> cors, state |-> "pending"]

(* faulty variant of Some: forEach instead of some, a match does not end the loop *)
Some_All(rs, match, i) == [k \in 1..(Len(rs) - i + 1) |-> rs[k + i - 1]]

(* MockerRouter.routers.some(router => router._match(event, response)): the    *)
(* routers called, from position i on.  match[k] is what _match of router k    *)
(* does for the request: returns false (no entry matches), returns true (an    *)
(* entry matches and its handler is invoked), or raises.                       *)
RECURSIVE Some(_, _, _)
Some(rs, match, i) ==
    IF i > Len(rs) THEN <<>>
    ELSE IF match[rs[i]] = "false" THEN <<rs[i]>> \o Some(rs, match, i + 1)
    ELSE <<rs[i]>>

Init ==
    /\ env \in Envs
    /\ routers = <<>>
    /\ now = 0
    /\ inflight = {1}
    /\ phase = [r \in Requests |-> "idle"]
    /\ method = [r \in Requests |-> "GET"]
    /\ at = [r \in Requests |-> 0]
    /\ seen = [r \in Requests |-> 0]
    /\ attempts = [r \in Requests |-> <<>>]
    /\ results = [r \in Requests |-> <<>>]
    /\ handler = [r \in Requests |-> 0]
    /\ aborted = [r \in Requests |-> "none"]
    /\ respondWithCalls = [r \in Requests |-> 0]
    /\ resolved = [r \in Requests |-> FALSE]
    /\ globalTimer = [r \in Requests |-> "none"]
    /\ respTimer = [r \in Requests |-> "none"]
    /\ warned = [r \in Requests |-> 0]
    /\ statusCode = [r \in Requests |-> DEFAULT_STATUS]
    /\ contentType = [r \in Requests |-> ""]
    /\ body = [r \in Requests |-> Undefined]
    /\ deferred = [r \in Requests |-> [done |-> FALSE, value |-> NoValue]]
    /\ net = [r \in Requests |-> <<>>]
    /\ awaiting = [r \in Requests |-> 0]
    /\ calls = [r \in Requests |-> 0]
    /\ lastCall = [r \in Requests |-> <<"", "">>]
    /\ delivered = 0
    /\ posted = [p \in Ports |-> <<>>]
    /\ claims = <<>>

(* new MockerRouter(baseURL), as in the MockerServer constructor: appended to   *)
(* the registry.  A router registered when every request has been dispatched   *)
(* and has its handler can be observed by no request, and is left out.         *)
RegisterRouter ==
    /\ Len(routers) < MaxRouters
    /\ \E r \in inflight : phase[r] = "idle" \/ handler[r] = 0
    /\ routers' = Append(routers, Len(routers) + 1)
    /\ UNCHANGED <<messaging, inflight, env, now, dispatch, builder, settle, warned, awaiting, calls, lastCall>>

(* the fetch listener, with the MockerResponse constructor it runs *)
Intercept(r, m, match) ==
    /\ r \in inflight
    /\ phase[r] = "idle"
    /\ phase' = [phase EXCEPT ![r] = "open"]
    /\ method' = [method EXCEPT ![r] = m]
    /\ at' = [at EXCEPT ![r] = now]
    /\ seen' = [seen EXCEPT ![r] = Len(routers)]
    /\ respTimer' = [respTimer EXCEPT ![r] = "armed"]
    /\ respondWithCalls' = [respondWithCalls EXCEPT ![r] = 2]
    /\ IF env = "worker"
       THEN \* a FetchEvent refuses a second respondWith: the listener ends there
            /\ aborted' = [aborted EXCEPT ![r] = "respondWith"]
            /\ UNCHANGED <<attempts, results, handler, globalTimer>>
       ELSE LET as == Some(routers, match, 1)
                out == IF as = <<>> THEN "false" ELSE match[as[Len(as)]]
            IN  /\ attempts' = [attempts EXCEPT ![r] = as]
                /\ results' = [results EXCEPT ![r] = [k \in 1..Len(as) |-> match[as[k]]]]
                /\ handler' = [handler EXCEPT ![r] = IF out = "true" THEN as[Len(as)] ELSE 0]
                /\ aborted' = [aborted EXCEPT ![r] = IF out = "throw" THEN "router" ELSE "none"]
                /\ globalTimer' = [globalTimer EXCEPT ![r] =
                                      IF out = "throw" THEN "none" ELSE "armed"]
    /\ UNCHANGED <<messaging, inflight, registry, now, builder, deferred, resolved, net, warned,
                   awaiting, calls, lastCall>>

(* ---- the response builder ---- *)
(* faulty variant of EndBody: the HEAD rule is missing *)
EndBody_NoHead(st, m, bd) == IF st \in NULL_BODY_STATUS THEN Undefined ELSE bd

(* end(): the body after the null-body-status and the HEAD rule *)
EndBody(st, m, bd) ==
    LET afterStatus == IF st \in NULL_BODY_STATUS THEN Undefined ELSE bd
    IN  IF m = "HEAD" THEN Undefined ELSE afterStatus

(* faulty variant of EndResponse: the status set by status() is not passed on *)
EndResponse_DefaultStatus(st, ct, bd, m) ==
    [kind |-> "built", status |-> DEFAULT_STATUS, statusText |-> StatusText(DEFAULT_STATUS),
     ctype |-> ct, body |-> EndBody(st, m, bd)]

(* end(): new Response(responseBody, responseInit) *)
EndResponse(st, ct, bd, m) ==
    [kind |-> "built", status |-> st, statusText |-> StatusText(st), ctype |-> ct,
     body |-> EndBody(st, m, bd)]

(* new Response(...) raises a RangeError for a status outside 200..599 where the *)
(* platform checks it (a polyfilled Response does not)                           *)
CtorThrows(st) == IF st < 200 \/ st > 599 THEN BOOLEAN ELSE {FALSE}

(* end(), run on the builder fields st, ct, bd its caller has just stored *)
End(r, st, ct, bd, throws) ==
    LET ct2 == TypeIfUnset(ct, "text")
        res == EndResponse(st, ct2, bd, method[r])
    IN  /\ statusCode' = [statusCode EXCEPT ![r] = st]
        /\ contentType' = [contentType EXCEPT ![r] = ct2]
        /\ body' = [body EXCEPT ![r] = bd]
        /\ IF throws
           THEN UNCHANGED settle
           ELSE Settle(r, DeferResolve(deferred[r], res), net[r])

(* json(v), run on the builder fields st, ct *)
Json(r, st, ct, v, throws) ==
    End(r, st, TypeIfUnset(ct, "json"), JSONStringify(v), throws)

(* faulty variant of Send: a body of another shape makes send() return *)
Send_RejectOther(r, st, ct, bd, v, throws) ==
    CASE TypeOf(v) = "string" ->
            End(r, st, TypeIfUnset(ct, "html"), [enc |-> "raw", of |-> v], throws)
      [] TypeOf(v) = "object" /\ v = "blob" ->
            End(r, st, TypeIfUnset(ct, "image/png"), [enc |-> "raw", of |-> v], throws)
      [] TypeOf(v) = "object" /\ v = "arraybuffer" ->
            End(r, st, TypeIfUnset(ct, "bin"), [enc |-> "raw", of |-> v], throws)
      [] TypeOf(v) = "object" /\ v \notin {"blob", "arraybuffer"} ->
            Json(r, st, ct, v, throws)
      [] OTHER ->
            UNCHANGED <<builder, settle>>

(* send(v): the switch on typeof body *)
Send(r, st, ct, bd, v, throws) ==
    CASE TypeOf(v) = "string" ->
            End(r, st, TypeIfUnset(ct, "html"), [enc |-> "raw", of |-> v], throws)
      [] TypeOf(v) = "object" /\ v = "blob" ->
            End(r, st, TypeIfUnset(ct, "image/png"), [enc |-> "raw", of |-> v], throws)
      [] TypeOf(v) = "object" /\ v = "arraybuffer" ->
            End(r, st, TypeIfUnset(ct, "bin"), [enc |-> "raw", of |-> v], throws)
      [] TypeOf(v) = "object" /\ v \notin {"blob", "arraybuffer"} ->
            Json(r, st, ct, v, throws)
      [] OTHER ->
            End(r, st, TypeIfUnset(ct, "text"), bd, throws)

(* a call the invoked handler makes on the builder *)
HandlerCall(r, call) ==
    /\ handler[r] # 0
    /\ calls[r] < MaxCalls
    /\ calls' = [calls EXCEPT ![r] = @ + 1]
    /\ lastCall' = [lastCall EXCEPT ![r] = call]

HStatus(r, code) ==
    /\ HandlerCall(r, <<"status", ToString(code)>>)
    /\ statusCode' = [statusCode EXCEPT ![r] = code]
    /\ UNCHANGED <<messaging, inflight, registry, now, dispatch, contentType, body, settle, warned, awaiting>>

HType(r, t) ==
    /\ HandlerCall(r, <<"type", t>>)
    /\ contentType' = [contentType EXCEPT ![r] = TypeHeader(t)]
    /\ UNCHANGED <<messaging, inflight, registry, now, dispatch, statusCode, body, settle, warned, awaiting>>

HJson(r, v) ==
    /\ HandlerCall(r, <<"json", v>>)
    /\ \E throws \in CtorThrows(statusCode[r]) :
          Json(r, statusCode[r], contentType[r], v, throws)
    /\ UNCHANGED <<messaging, inflight, registry, now, dispatch, warned, awaiting>>

HSend(r, v) ==
    /\ HandlerCall(r, <<"send", v>>)
    /\ \E throws \in CtorThrows(statusCode[r]) :
          Send(r, statusCode[r], contentType[r], body[r], v, throws)
    /\ UNCHANGED <<messaging, inflight, registry, now, dispatch, warned, awaiting>>

(* sendStatus(code): type('text'), the status, send(status text) *)
HSendStatus(r, code) ==
    /\ HandlerCall(r, <<"sendStatus", ToString(code)>>)
    /\ \E throws \in CtorThrows(code) :
          End(r, code, TypeIfUnset(TypeHeader("text"), "html"),
              [enc |-> "raw", of |-> StatusText(code)], throws)
    /\ UNCHANGED <<messaging, inflight, registry, now, dispatch, warned, awaiting>>

HEnd(r) ==
    /\ HandlerCall(r, <<"end", "">>)
    /\ \E throws \in CtorThrows(statusCode[r]) :
          End(r, statusCode[r], contentType[r], body[r], throws)
    /\ UNCHANGED <<messaging, inflight, registry, now, dispatch, warned, awaiting>>

(* faulty variant of ForwardOptions: mode and credentials set for a Request too *)
ForwardOptions_Always(input) == TRUE

(* forward(): whether the request is made with the options built by forward()  *)
(* (mode 'cors', credentials 'include'), which it is for a URL; a Request goes *)
(* to nativeFetch with the caller's init                                       *)
ForwardOptions(input) == input = "url"

(* forward(): this._deferred.resolve(nativeFetch(...)) *)
ForwardFetch(r, by, input) ==
    LET n == Append(net[r], NetRequest(by, NativeFetch(env), input, ForwardOptions(input)))
    IN  Settle(r, DeferResolve(deferred[r], [kind |-> "net", id |-> Len(n)]), n)

(* forward(input, init) called by the handler: a Request is fetched at once, a *)
(* URL after the body of a request other than GET and HEAD has been read       *)
HForward(r, input) ==
    /\ HandlerCall(r, <<"forward", input>>)
    /\ IF input = "url" /\ method[r] \notin {"GET", "HEAD"}
       THEN /\ awaiting' = [awaiting EXCEPT ![r] = @ + 1]
            /\ UNCHANGED settle
       ELSE /\ ForwardFetch(r, "handler", input)
            /\ UNCHANGED awaiting
    /\ UNCHANGED <<messaging, inflight, registry, now, dispatch, builder, warned>>

(* forward(url) going on after `await req.formData() / blob() / text()` *)
ForwardResume(r) ==
    /\ awaiting[r] > 0
    /\ awaiting' = [awaiting EXCEPT ![r] = @ - 1]
    /\ ForwardFetch(r, "handler", "url")
    /\ UNCHANGED <<messaging, inflight, registry, now, dispatch, builder, warned, calls, lastCall>>

(* ---- timers ---- *)
RespTimerDue(r) == respTimer[r] = "armed" /\ now >= at[r] + RESPONSE_TIMEOUT
GlobalTimerDue(r) == globalTimer[r] = "armed" /\ now >= at[r] + FALLBACK_DELAY

(* faulty variant of RespTimerFire: the timer logs and does not forward *)
RespTimerFire_LogOnly(r) ==
    /\ RespTimerDue(r)
    /\ respTimer' = [respTimer EXCEPT ![r] = "fired"]
    /\ warned' = [warned EXCEPT ![r] = IF deferred[r].done THEN @ ELSE @ + 1]
    /\ UNCHANGED <<messaging, inflight, registry, now, dispatch, builder, deferred, resolved, net,
                   awaiting, calls, lastCall>>

(* the constructor's setTimeout callback *)
RespTimerFire(r) ==
    /\ RespTimerDue(r)
    /\ IF deferred[r].done
       THEN /\ respTimer' = [respTimer EXCEPT ![r] = "fired"]
            /\ UNCHANGED <<deferred, resolved, net, warned>>
       ELSE /\ warned' = [warned EXCEPT ![r] = @ + 1]
            /\ LET n == Append(net[r], NetRequest("respTimer", NativeFetch(env), "request", FALSE))
               IN  /\ deferred' = [deferred EXCEPT ![r] =
                                      DeferResolve(@, [kind |-> "net", id |-> Len(n)])]
                   /\ net' = [net EXCEPT ![r] = n]
            /\ respTimer' = [respTimer EXCEPT ![r] = "fired"]
            /\ UNCHANGED resolved
    /\ UNCHANGED <<messaging, inflight, registry, now, dispatch, builder, awaiting, calls, lastCall>>

(* the listener's setTimeout callback *)
GlobalTimerFire(r) ==
    /\ GlobalTimerDue(r)
    /\ globalTimer' = [globalTimer EXCEPT ![r] = "fired"]
    /\ IF resolved[r]
       THEN UNCHANGED <<resolved, net>>
       ELSE /\ resolved' = [resolved EXCEPT ![r] = TRUE]
            /\ net' = [net EXCEPT ![r] =
                          Append(@, NetRequest("global", GlobalFetch(env), "request", FALSE))]
    /\ UNCHANGED <<messaging, inflight, registry, now, phase, method, at, seen, attempts, results, handler,
                   aborted, respondWithCalls, builder, deferred, respTimer, warned, awaiting,
                   calls, lastCall>>

(* A request sent through the patched primitive is intercepted again.  The     *)
(* nested dispatch is not unfolded: its answer comes back when a handler can   *)
(* give one, that is when a router matched the request or a router has been    *)
(* registered since the request was dispatched.  Without a handler the nested  *)
(* dispatch has its own timers only, the earlier of which forwards 10 s after  *)
(* the nested interception: later than the 10 s timer of the request itself,   *)
(* whose forward has resolved the deferred by then.                            *)
CanReply(r, q) == q.via = "native" \/ handler[r] # 0 \/ Len(routers) > seen[r]

(* a network request settles; the global fallback's .then resolves with the reply *)
Reply(r, i, outcome) ==
    /\ i \in 1..Len(net[r])
    /\ net[r][i].state = "pending"
    /\ CanReply(r, net[r][i])
    /\ LET n == [net[r] EXCEPT ![i].state = outcome]
           d == IF n[i].by = "global" /\ outcome = "ok"
                THEN DeferResolve(deferred[r], [kind |-> "net", id |-> i])
                ELSE deferred[r]
       IN  Settle(r, d, n)
    /\ UNCHANGED <<messaging, inflight, registry, now, dispatch, builder, warned, awaiting, calls, lastCall>>

(* the armed timers' deadlines *)
Deadlines ==
    {at[r] + FALLBACK_DELAY : r \in {q \in Requests : globalTimer[q] = "armed"}}
    \cup {at[r] + RESPONSE_TIMEOUT : r \in {q \in Requests : respTimer[q] = "armed"}}

(* Time passes up to the next deadline.  What happens between two deadlines    *)
(* happens at the earlier clock reading, so `now` never exceeds the real time. *)
Tick ==
    /\ \A r \in Requests : ~RespTimerDue(r) /\ ~GlobalTimerDue(r)
    /\ \E t \in Deadlines :
          /\ t > now
          /\ \A u \in Deadlines : u > now => t <= u
          /\ now' = t
    /\ UNCHANGED <<messaging, inflight, registry, dispatch, builder, settle, warned, awaiting, calls, lastCall>>

(* ---- the message listener ---- *)
(* A message event has its data (null, or an object whose action is the value  *)
(* given; "OTHER" stands for any other action and for none) and its ports.     *)
Messages == [data : MessageData, ports : PortLists]

(* if (!data || !ports || !ports.length) return *)
Ignored(m) == m.data = "null" \/ Len(m.ports) = 0

(* faulty variant of Dispatch: the PING case runs into the REQUEST_CLAIM case *)
Dispatch_PingClaims(action) ==
    CASE action = "PING" -> "claim"
      [] action = "REQUEST_CLAIM" -> "claim"
      [] OTHER -> "return"

(* faulty variant of Dispatch: a default case answering PONG *)
Dispatch_DefaultPong(action) ==
    CASE action = "PING" -> "pong"
      [] action = "REQUEST_CLAIM" -> "claim"
      [] OTHER -> "pong"

(* switch (data.action) *)
Dispatch(action) ==
    CASE action = "PING" -> "pong"
      [] action = "REQUEST_CLAIM" -> "claim"
      [] OTHER -> "return"

(* faulty variant of AfterClaim: the acknowledgment is posted whatever the outcome *)
AfterClaim_Always(outcome) == <<"ESTABLISHED">>

(* what follows `await self.clients.claim()`: a rejected claim is rethrown by   *)
(* the await and ends the listener                                             *)
AfterClaim(outcome) == IF outcome = "ok" THEN <<"ESTABLISHED">> ELSE <<>>

(* the message listener, up to its return or its await *)
OnMessage(m) ==
    /\ delivered < MaxMessages
    /\ delivered' = delivered + 1
    /\ IF Ignored(m)
       THEN UNCHANGED <<posted, claims>>
       ELSE LET port == m.ports[1]
                todo == Dispatch(m.data)
            IN  /\ posted' = IF todo = "pong"
                             THEN [posted EXCEPT ![port] = Append(@, "PONG")]
                             ELSE posted
                /\ claims' = IF todo = "claim"
                             THEN Append(claims, [port |-> port, state |-> "pending"])
                             ELSE claims
    /\ UNCHANGED fetching

(* self.clients.claim() settles and the listener suspended on it goes on *)
ClaimSettles(i, outcome) ==
    /\ i \in 1..Len(claims)
    /\ claims[i].state = "pending"
    /\ claims' = [claims EXCEPT ![i].state = outcome]
    /\ posted' = [posted EXCEPT ![claims[i].port] = @ \o AfterClaim(outcome)]
    /\ UNCHANGED <<delivered, fetching>>

Next ==
    \/ RegisterRouter
    \/ \E r \in Requests, m \in Methods, match \in [1..Len(routers) -> MatchResults] :
          Intercept(r, m, match)
    \/ \E r \in Requests, c \in Codes : HStatus(r, c)
    \/ \E r \in Requests, t \in TypeArgs : HType(r, t)
    \/ \E r \in Requests, v \in JsonArgs : HJson(r, v)
    \/ \E r \in Requests, v \in SendArgs : HSend(r, v)
    \/ \E r \in Requests, c \in SendStatusCodes : HSendStatus(r, c)
    \/ \E r \in Requests : HEnd(r)
    \/ \E r \in Requests, i \in ForwardArgs : HForward(r, i)
    \/ \E r \in Requests : ForwardResume(r)
    \/ \E r \in Requests : RespTimerFire(r)
    \/ \E r \in Requests : GlobalTimerFire(r)
    \/ \E r \in Requests, i \in 1..(MaxCalls + 2), o \in {"ok", "fail"} : Reply(r, i, o)
    \/ Tick

Spec == Init /\ [][Next]_vars

(* Timers fire, time passes, every network request that can be answered is     *)
(* answered, a suspended forward() goes on.  Handlers owe nothing.             *)
Fairness ==
    /\ WF_vars(Tick)
    /\ \A r \in Requests : WF_vars(RespTimerFire(r)) /\ WF_vars(GlobalTimerFire(r))
    /\ \A r \in Requests : WF_vars(ForwardResume(r))
    /\ \A r \in Requests, i \in 1..(MaxCalls + 2) :
          WF_vars(\E o \in {"ok", "fail"} : Reply(r, i, o))

LiveSpec == Init /\ [][Next]_vars /\ Fairness

(* The message listener and the fetch listener share no state: the handshake   *)
(* is a behaviour of its own.                                                  *)
HandshakeNext ==
    \/ \E m \in Messages : OnMessage(m)
    \/ \E i \in 1..MaxMessages, o \in ClaimOutcomes : ClaimSettles(i, o)

HandshakeSpec == Init /\ [][HandshakeNext]_vars

(* Two requests in flight together, in legacy mode (where the listener runs to *)
(* its end) with the server's router registered, each a GET whose handler, if  *)
(* the router matches, ends the response or forwards the request.              *)
PairInit ==
    /\ env = "legacy"
    /\ routers = <<1>>
    /\ now = 0
    /\ inflight = Requests
    /\ phase = [r \in Requests |-> "idle"]
    /\ method = [r \in Requests |-> "GET"]
    /\ at = [r \in Requests |-> 0]
    /\ seen = [r \in Requests |-> 0]
    /\ attempts = [r \in Requests |-> <<>>]
    /\ results = [r \in Requests |-> <<>>]
    /\ handler = [r \in Requests |-> 0]
    /\ aborted = [r \in Requests |-> "none"]
    /\ respondWithCalls = [r \in Requests |-> 0]
    /\ resolved = [r \in Requests |-> FALSE]
    /\ globalTimer = [r \in Requests |-> "none"]
    /\ respTimer = [r \in Requests |-> "none"]
    /\ warned = [r \in Requests |-> 0]
    /\ statusCode = [r \in Requests |-> DEFAULT_STATUS]
    /\ contentType = [r \in Requests |-> ""]
    /\ body = [r \in Requests |-> Undefined]
    /\ deferred = [r \in Requests |-> [done |-> FALSE, value |-> NoValue]]
    /\ net = [r \in Requests |-> <<>>]
    /\ awaiting = [r \in Requests |-> 0]
    /\ calls = [r \in Requests |-> 0]
    /\ lastCall = [r \in Requests |-> <<"", "">>]
    /\ delivered = 0
    /\ posted = [p \in Ports |-> <<>>]
    /\ claims = <<>>

PairNext ==
    \/ \E r \in Requests, match \in [1..Len(routers) -> {"false", "true"}] :
          Intercept(r, "GET", match)
    \/ \E r \in Requests : HEnd(r)
    \/ \E r \in Requests : HForward(r, "request")
    \/ \E r \in Requests : RespTimerFire(r)
    \/ \E r \in Requests : GlobalTimerFire(r)
    \/ \E r \in Requests, i \in 1..(MaxCalls + 2), o \in {"ok", "fail"} : Reply(r, i, o)
    \/ Tick

PairSpec == PairInit /\ [][PairNext]_vars

(* ---- what the platform gets ---- *)
Settled(r) == IsSettled(deferred[r], net[r])

(* the response respondWith's promise settles with *)
Delivered(r) ==
    IF deferred[r].value.kind = "net" THEN net[r][deferred[r].value.id] ELSE deferred[r].value

(* C1: every intercepted request eventually gets a response: once the fetch    *)
(* listener has run for a request, the deferred handed to respondWith is       *)
(* eventually settled, whatever the routers and the handler do.                *)
C1_EventuallySettled == \A r \in Requests : (phase[r] = "open") ~> Settled(r)

(* a request settled by the 10 s timer's forward, no handler having answered *)
C1_Witness ==
    \E r \in Requests :
        /\ Settled(r)
        /\ deferred[r].value.kind = "net"
        /\ Delivered(r).by = "respTimer"

(* C2: first resolver wins: once the deferred has been resolved (by end(),      *)
(* json(), send(), forward() or a timer), no later call and no later timer      *)
(* changes what it was resolved with, and once it has settled the response the  *)
(* platform received stays the same.                                            *)
C2_FirstResolverWins ==
    [][\A r \in Requests :
          /\ deferred[r].value # NoValue => deferred'[r].value = deferred[r].value
          /\ Settled(r) => Settled(r)' /\ Delivered(r)' = Delivered(r)]_vars

(* end() has resolved the response and a forward() of the handler came later *)
C2_Witness ==
    \E r \in Requests :
        /\ deferred[r].value.kind = "built"
        /\ \E i \in 1..Len(net[r]) : net[r][i].by = "handler" /\ net[r][i].state = "ok"

(* C3 as stated: the dispatcher, when nothing makes it throw, asks every        *)
(* registered router; a router that matched does not keep the later ones from   *)
(* being asked.                                                                 *)
C3_AllRoutersAsked ==
    \A r \in Requests :
        phase[r] = "open" /\ aborted[r] = "none" => Len(attempts[r]) = seen[r]

(* C3 amended: routers are asked in registration order and the asking stops at  *)
(* the first router whose match attempt returns true: a router is asked only if *)
(* every router registered before it was asked and returned false.              *)
C3_StopsAtFirstMatch ==
    \A r \in Requests :
        /\ Len(attempts[r]) <= seen[r]
        /\ Len(results[r]) = Len(attempts[r])
        /\ \A k \in 1..Len(attempts[r]) :
              /\ attempts[r][k] = k
              /\ k < Len(attempts[r]) => results[r][k] = "false"

(* the first of two routers matched, the second was not asked *)
C3_Witness ==
    \E r \in Requests : results[r] = <<"true">> /\ seen[r] = 2

(* a call of the handler that ends the response *)
TerminalCall(r) ==
    \/ HEnd(r)
    \/ \E v \in JsonArgs : HJson(r, v)
    \/ \E v \in SendArgs : HSend(r, v)
    \/ \E c \in SendStatusCodes : HSendStatus(r, c)

(* the response end() is to build from the builder's fields *)
Expected(st, ct, bd, m) ==
    [kind |-> "built", status |-> st, statusText |-> StatusText(st), ctype |-> ct,
     body |-> IF st \in {101, 204, 205, 304} \/ m = "HEAD" THEN Undefined ELSE bd]

(* C4 as stated: when the handler of the matching entry ends the response (with *)
(* a status the Response constructor takes), the response delivered is the one  *)
(* the handler set.                                                             *)
C4_HandlerResponseDelivered ==
    [][\A r \in Requests :
          TerminalCall(r) /\ statusCode'[r] \in 200..599
          => Delivered(r)' = Expected(statusCode'[r], contentType'[r], body'[r], method[r])]_vars

(* C4 amended: when the handler of the matching entry ends the response while   *)
(* the deferred is still unresolved (no forward(), no timer's request came      *)
(* first), the response delivered has the status and content type the builder   *)
(* holds at that call and the body it holds, emptied for HEAD and for a         *)
(* null-body status.                                                            *)
C4_FirstEndDelivered ==
    [][\A r \in Requests :
          TerminalCall(r) /\ statusCode'[r] \in 200..599 /\ deferred[r].value = NoValue
          => /\ Settled(r)'
             /\ Delivered(r)' = Expected(statusCode'[r], contentType'[r], body'[r], method[r])]_vars

(* the handler of the second router answered 404 with a body, the first router  *)
(* not matching                                                                 *)
C4_Witness ==
    \E r \in Requests :
        /\ handler[r] = 2
        /\ Settled(r)
        /\ Delivered(r).kind = "built"
        /\ Delivered(r).status = 404
        /\ Delivered(r).body # Undefined

(* no router has been registered since the request was dispatched, and none of *)
(* those asked about it matched or raised                                      *)
NoRouterMatches(r) ==
    /\ phase[r] = "open"
    /\ Len(routers) = seen[r]
    /\ handler[r] = 0
    /\ \A k \in 1..Len(results[r]) : results[r][k] = "false"

(* C5: a request no router matches gets the result of a network fetch of the    *)
(* original request through the native primitive, issued by one of the two      *)
(* timers, no earlier than 2 units after interception.                          *)
C5_UnmatchedFromNetwork ==
    \A r \in Requests :
        NoRouterMatches(r) /\ Settled(r)
        => /\ deferred[r].value.kind = "net"
           /\ Delivered(r).by \in {"global", "respTimer"}
           /\ Delivered(r).input = "request"
           /\ Delivered(r).via = "native"
           /\ now >= at[r] + 2

(* a router was asked, did not match, and the network's answer was delivered *)
C5_Witness ==
    \E r \in Requests :
        /\ NoRouterMatches(r) /\ Settled(r)
        /\ seen[r] >= 1
        /\ Delivered(r).state = "ok"

C7_ThrowDoesNotAbort ==
    \A r \in Requests :
        (\E k \in 1..Len(results[r]) : results[r][k] = "throw")
        => Len(attempts[r]) = seen[r] /\ globalTimer[r] # "none"

(* send(v) with a body that is no string, no binary payload, no object *)
OtherShapes == {"undefined", "function"}

(* C8 as stated: send() with a body of another shape is rejected: the call does *)
(* not finalize the response, a pending builder stays pending.                  *)
C8_OtherShapeRejected ==
    [][\A r \in Requests : \A v \in OtherShapes :
          HSend(r, v) /\ deferred[r].value = NoValue => deferred'[r].value = NoValue]_vars

(* C8 amended: send() with a body of another shape is not rejected: it keeps    *)
(* the stored body, sets the content type to text/plain if none is set, and     *)
(* ends the response as end() does: a pending builder (with a status the        *)
(* Response constructor takes) is resolved by that call.                        *)
C8_OtherShapeEnds ==
    [][\A r \in Requests : \A v \in OtherShapes :
          HSend(r, v) /\ deferred[r].value = NoValue /\ statusCode[r] \in 200..599
          => /\ body'[r] = body[r]
             /\ statusCode'[r] = statusCode[r]
             /\ contentType'[r] = IF contentType[r] = "" THEN "text/plain" ELSE contentType[r]
             /\ deferred'[r].value =
                   Expected(statusCode[r], contentType'[r], body[r], method[r])]_vars

(* the handler's one call was send() with a function: the response was ended *)
C8_Witness ==
    \E r \in Requests :
        /\ lastCall[r] = <<"send", "function">>
        /\ calls[r] = 1
        /\ deferred[r].value.kind = "built"
        /\ deferred[r].value.ctype = "text/plain"

(* C9: a response ended under status 101, 204, 205 or 304 has an empty body,    *)
(* whatever calls set the status and the body, in whatever order.               *)
C9_NullBodyStatus ==
    \A r \in Requests :
        deferred[r].value.kind = "built" /\ deferred[r].value.status \in {101, 204, 205, 304}
        => deferred[r].value.body = Undefined

(* status 304 was set, then a body sent: the response was ended without it *)
C9_Witness ==
    \E r \in Requests :
        /\ deferred[r].value.kind = "built"
        /\ deferred[r].value.status = 304
        /\ deferred[r].value.body = Undefined
        /\ body[r] # Undefined

(* C10: for a HEAD request a response the handler ended has an empty body,      *)
(* whatever body the handler gave.                                              *)
C10_HeadNoBody ==
    \A r \in Requests :
        method[r] = "HEAD" /\ deferred[r].value.kind = "built"
        => deferred[r].value.body = Undefined

(* a HEAD request answered 404 with a body given: the response has none *)
C10_Witness ==
    \E r \in Requests :
        /\ method[r] = "HEAD"
        /\ deferred[r].value.kind = "built"
        /\ deferred[r].value.status = 404
        /\ body[r] # Undefined

(* the messages of one kind posted on a port *)
RECURSIVE CountOf(_, _)
CountOf(seq, x) ==
    IF seq = <<>> THEN 0
    ELSE (IF Head(seq) = x THEN 1 ELSE 0) + CountOf(Tail(seq), x)

(* C11: a PING delivered with a port posts exactly one PONG on that port (the   *)
(* first of the ports) and does nothing else: nothing on another port, no claim *)
(* started, no ESTABLISHED.                                                     *)
C11_PingPong ==
    [][\A ps \in PortLists :
          Len(ps) > 0 /\ OnMessage([data |-> "PING", ports |-> ps])
          => /\ posted' = [posted EXCEPT ![ps[1]] = posted[ps[1]] \o <<"PONG">>]
             /\ claims' = claims]_vars

(* two PINGs on port 2 have been answered, and nothing else has happened *)
C11_Witness ==
    /\ delivered = 2
    /\ posted = [p \in Ports |-> IF p = 2 THEN <<"PONG", "PONG">> ELSE <<>>]
    /\ claims = <<>>

(* C12: ESTABLISHED is posted on a port only when a claim started for a         *)
(* REQUEST_CLAIM on that port has completed: on every port there are as many    *)
(* ESTABLISHED as completed claims of that port, none for a pending or a failed *)
(* claim, whatever messages were handled in between.                            *)
C12_EstablishedAfterClaim ==
    \A p \in Ports :
        CountOf(posted[p], "ESTABLISHED") =
            Cardinality({i \in 1..Len(claims) : claims[i].port = p /\ claims[i].state = "ok"})

(* a claim of one port pending while a later PING on that port was answered,   *)
(* and a completed claim of the other port acknowledged                        *)
C12_Witness ==
    \E p \in Ports :
        /\ \E i \in 1..Len(claims) : claims[i].port = p /\ claims[i].state = "pending"
        /\ posted[p] = <<"PONG">>
        /\ \E q \in Ports \ {p} :
              /\ posted[q] = <<"ESTABLISHED">>
              /\ \E i \in 1..Len(claims) : claims[i].port = q /\ claims[i].state = "ok"

(* C13: a message without a port, and a message whose action is neither PING    *)
(* nor REQUEST_CLAIM, is ignored: nothing is posted and no claim is started.    *)
C13_OthersIgnored ==
    [][\A m \in Messages :
          OnMessage(m) /\ (Len(m.ports) = 0 \/ m.data \notin {"PING", "REQUEST_CLAIM"})
          => posted' = posted /\ claims' = claims]_vars

(* three messages were delivered and left no trace *)
C13_Witness ==
    /\ delivered = 3
    /\ \A p \in Ports : posted[p] = <<>>
    /\ claims = <<>>

(* C14 as stated: the global fallback timer does nothing when the builder has   *)
(* been resolved (by end(), json(), send() or forward()) when it fires: no      *)
(* network request, the deferred untouched.                                     *)
C14_FallbackNoOpWhenResolved ==
    [][\A r \in Requests :
          GlobalTimerFire(r) /\ deferred[r].done
          => net'[r] = net[r] /\ deferred'[r] = deferred[r]]_vars

(* C15 as stated: forward() on a pending builder resolves it at that call, for  *)
(* every method and either shape of the argument, so that nothing called or     *)
(* fired later becomes the response.                                            *)
C15_ForwardResolvesAtCall ==
    [][\A r \in Requests : \A input \in ForwardArgs :
          HForward(r, input) /\ deferred[r].value = NoValue
          => deferred'[r].done /\ deferred'[r].value.kind = "net"]_vars

(* C16 as stated: every network request made for an intercepted request goes    *)
(* through the native primitive, in either mode.                                *)
C16_AllRequestsNative ==
    \A r \in Requests : \A i \in 1..Len(net[r]) : net[r][i].via = "native"

(* C17 as stated: every request forward() makes has mode 'cors' and credentials *)
(* 'include', for a URL and for a Request.                                      *)
C17_ForwardAlwaysCors ==
    \A r \in Requests : \A i \in 1..Len(net[r]) :
        net[r][i].by = "handler" => net[r][i].cors

(* C17 amended: forward(url, init) makes its request with mode 'cors' and       *)
(* credentials 'include'; forward(request, init) hands the Request and init to  *)
(* the native fetch as they are, setting neither.                               *)
C17_ForwardCorsForUrl ==
    \A r \in Requests : \A i \in 1..Len(net[r]) :
        net[r][i].by = "handler" =>
            (net[r][i].cors <=> net[r][i].input = "url")

(* the handler forwarded to a URL and forwarded a Request *)
C17_Witness ==
    \E r \in Requests : \E i, j \in 1..Len(net[r]) :
        /\ net[r][i].by = "handler" /\ net[r][i].input = "url" /\ net[r][i].cors
        /\ net[r][j].by = "handler" /\ net[r][j].input = "request" /\ ~net[r][j].cors

(* what belongs to one request *)
Own(r) ==
    <<phase[r], method[r], at[r], seen[r], attempts[r], results[r], handler[r], aborted[r],
      respondWithCalls[r], resolved[r], globalTimer[r], respTimer[r], warned[r],
      statusCode[r], contentType[r], body[r], deferred[r], net[r], awaiting[r], calls[r]>>

(* C18: requests in flight together are independent: a step that changes what   *)
(* belongs to one request (its builder, its deferred, its resolved flag, its    *)
(* timers, its network requests) changes nothing of the other, nor what the     *)
(* other was or will be delivered.                                              *)
C18_Independent ==
    [][\A a \in Requests : \A b \in Requests \ {a} :
          Own(a)' # Own(a) => Own(b)' = Own(b)]_vars

(* both intercepted at the same time: one answered by its handler, the other,  *)
(* left alone by that, resolved by its own 10 s timer                          *)
C18_Witness ==
    \E a \in Requests : \E b \in Requests \ {a} :
        /\ at[a] = at[b]
        /\ deferred[a].value.kind = "built" /\ resolved[a] /\ warned[a] = 0
        /\ deferred[b].value.kind = "net" /\ Delivered(b).by = "respTimer"
        /\ warned[b] = 1

(* C19 as stated: respondWith is called exactly once for each fetch event,      *)
(* counting the constructor's call and the listener's.                          *)
C19_RespondWithOnce ==
    \A r \in Requests : phase[r] = "open" => respondWithCalls[r] = 1

(* C20 as stated: at most one network request is made for an intercepted        *)
(* request, by forward(), the 2 s timer and the 10 s timer together.            *)
C20_AtMostOneRequest ==
    \A r \in Requests : Len(net[r]) <= 1
====
